---------------------------- MODULE Spec2Model ----------------------------
(***************************************************************************)
(* TransactionRequest (crates/rust-client/src/transactions/request.rs):    *)
(* the consuming builder, its accessors, its binary codec and its custom   *)
(* equality, as a state machine of one client program that builds a        *)
(* request by a chain of builder calls, serializes it into a buffer and    *)
(* deserializes a byte stream.                                             *)
(***************************************************************************)
EXTENDS Integers, Sequences, FiniteSets, TLC

\* ------------------------------------------------------------------ bounds
NumNotes == 3      \* notes 1..NumNotes; notes 2k-1 and 2k share a note id
MaxLen == 2        \* longest argument list handed to a builder call
MaxCalls == 3      \* longest sequence of constructor, builder, write_into and
                   \* into_transaction_args calls on one request
MaxByte == 3       \* byte values 0..MaxByte are written into a stream handed to read_from

\* ------------------------------------------------------- external types
\* A Note is opaque here; what the request uses of it is id(), its
\* conversions into PartialNote / NoteDetails and its serialization.
Notes == 1..NumNotes

\* note.id(): content-derived; the id commits to recipient and assets but
\* not to the metadata, so two different notes may carry the same id.
NoteIdOf(n) == (n + 1) \div 2

NoteIds == {NoteIdOf(n) : n \in Notes}

\* Option<T>: None is the empty sequence, Some(x) is <<x>>.
None == <<>>

Some(x) == <<x>>

\* NoteArgs = Word; one word value is enough to tell "defined" from None.
NoteArgs == {1}

OptNoteArgs == {None} \cup {Some(a) : a \in NoteArgs}

\* From<Note> for PartialNote: keeps metadata, recipient digest and assets.
PartialNoteOf(n) == [partial |-> n]

PartialNotes == {PartialNoteOf(n) : n \in Notes}

\* From<Note> for NoteDetails: keeps assets and recipient, drops metadata.
NoteDetailsOf(n) == [details |-> NoteIdOf(n)]

NoteDetailsSet == {NoteDetailsOf(n) : n \in Notes}

DetailsId(d) == d.details

\* OutputNote::{Full, Partial, Header}
Full(n) == [variant |-> "Full", note |-> n]

Partial(p) == [variant |-> "Partial", note |-> p]

Header(n) == [variant |-> "Header", note |-> NoteIdOf(n)]

OutputNotes == {Full(n) : n \in Notes} \cup {Partial(PartialNoteOf(1)), Header(1)}

\* TransactionScript: hash() is its content commitment; ast is its
\* structural representation (1 is the one deserialization rebuilds).
Scripts == {[hash |-> 1, ast |-> 2], [hash |-> 2, ast |-> 1]}

\* AdviceMap entries (Digest, Vec<Felt>) and MerkleStore inner nodes
Digests == {1, 2}

FeltVecs == {<<1>>}

InnerNodes == {1}

\* ------------------------------------------------------------ finite maps
EmptyMap == [x \in {} |-> 0]

\* BTreeMap::insert: the new value replaces an earlier one for the key
Insert(m, k, v) == [x \in DOMAIN m \cup {k} |-> IF x = k THEN v ELSE m[x]]

\* BTreeMap::from_iter over (key(x), x): a later duplicate key wins
RECURSIVE FromIter(_, _, _)
FromIter(m, items, key) ==
    IF items = <<>> THEN m
    ELSE LET x == Head(items)
         IN  FromIter(Insert(m, IF key = "note" THEN NoteIdOf(x) ELSE DetailsId(x), x),
                      Tail(items), key)

\* Seq(S) up to length MaxLen
ListsOf(S) == UNION {[1..k -> S] : k \in 0..MaxLen}

Range(f) == {f[x] : x \in DOMAIN f}

\* ------------------------------------------------------------------ state
VARIABLES
    req,      \* the TransactionRequest the client holds
    self,     \* the moved value inside the last builder call, as it was when the call returned
    call,     \* the last call: [op, args, status]
    calls,    \* number of builder calls made on the request
    pc,       \* "build", then "encoded" after write_into and "decoded" after read_from,
              \* or "converted" after into_transaction_args
    buffer,   \* the bytes write_into produced
    decoded,  \* what read_from returned: [status, value], value the request of an Ok
    tx_args   \* the TransactionArgs into_transaction_args returned, None before

vars == <<req, self, call, calls, pc, buffer, decoded, tx_args>>

\* script_template: Option<TransactionScriptTemplate>
CustomScript(script) == [variant |-> "CustomScript", script |-> script]

SendNotes(notes) == [variant |-> "SendNotes", notes |-> notes]

\* TransactionRequest::new()
new ==
    [ unauthenticated_input_notes |-> <<>>,
      input_notes |-> EmptyMap,
      script_template |-> None,
      expected_output_notes |-> EmptyMap,
      expected_future_notes |-> EmptyMap,
      advice_map |-> EmptyMap,
      merkle_store |-> {} ]

\* ------------------------------------------------- builder: pure bodies
\* mutant: the notes are pushed to the list but not entered into input_notes
unauthenticated_loop_no_insert(r, notes) ==
    [r EXCEPT !.unauthenticated_input_notes = @ \o [i \in DOMAIN notes |-> notes[i][1]]]

\* mutant: the notes are put in front of the unauthenticated list
RECURSIVE unauthenticated_loop_prepend(_, _)
unauthenticated_loop_prepend(r, notes) ==
    IF notes = <<>> THEN r
    ELSE LET note == Head(notes)[1]
             argument == Head(notes)[2]
         IN  unauthenticated_loop_prepend(
                 [r EXCEPT !.input_notes = Insert(@, NoteIdOf(note), argument),
                           !.unauthenticated_input_notes = <<note>> \o @],
                 Tail(notes))

\* mutant: a note whose id is already an input note is skipped
RECURSIVE unauthenticated_loop_skip_known(_, _)
unauthenticated_loop_skip_known(r, notes) ==
    IF notes = <<>> THEN r
    ELSE LET note == Head(notes)[1]
             argument == Head(notes)[2]
         IN  unauthenticated_loop_skip_known(
                 IF NoteIdOf(note) \in DOMAIN r.input_notes THEN r
                 ELSE [r EXCEPT !.input_notes = Insert(@, NoteIdOf(note), argument),
                                !.unauthenticated_input_notes = Append(@, note)],
                 Tail(notes))

\* the loop of with_unauthenticated_input_notes over (note, argument) pairs
RECURSIVE unauthenticated_loop(_, _)
unauthenticated_loop(r, notes) ==
    IF notes = <<>> THEN r
    ELSE LET note == Head(notes)[1]
             argument == Head(notes)[2]
         IN  unauthenticated_loop(
                 [r EXCEPT !.input_notes = Insert(@, NoteIdOf(note), argument),
                           !.unauthenticated_input_notes = Append(@, note)],
                 Tail(notes))

\* mutant: a note whose id is supplied as authenticated leaves the
\* unauthenticated list
RECURSIVE authenticated_loop_reclassify(_, _)
authenticated_loop_reclassify(r, notes) ==
    IF notes = <<>> THEN r
    ELSE authenticated_loop_reclassify(
             [r EXCEPT !.input_notes = Insert(@, Head(notes)[1], Head(notes)[2]),
                       !.unauthenticated_input_notes =
                           SelectSeq(@, LAMBDA n : NoteIdOf(n) # Head(notes)[1])],
             Tail(notes))

\* mutant: the args of an id that is already an input note are kept
RECURSIVE authenticated_loop_keep_first(_, _)
authenticated_loop_keep_first(r, notes) ==
    IF notes = <<>> THEN r
    ELSE authenticated_loop_keep_first(
             IF Head(notes)[1] \in DOMAIN r.input_notes THEN r
             ELSE [r EXCEPT !.input_notes = Insert(@, Head(notes)[1], Head(notes)[2])],
             Tail(notes))

\* the loop of with_authenticated_input_notes over (note_id, argument) pairs
RECURSIVE authenticated_loop(_, _)
authenticated_loop(r, notes) ==
    IF notes = <<>> THEN r
    ELSE authenticated_loop(
             [r EXCEPT !.input_notes = Insert(@, Head(notes)[1], Head(notes)[2])],
             Tail(notes))

Ok(r) == [status |-> "Ok", self |-> r]

Err(e, r) == [status |-> e, self |-> r]

\* mutant: a full note is sent but not registered as an expected output note
RECURSIVE own_notes_loop_no_register(_, _, _)
own_notes_loop_no_register(r, own_notes, notes) ==
    IF notes = <<>>
    THEN Ok([r EXCEPT !.script_template = Some(SendNotes(own_notes))])
    ELSE LET note == Head(notes)
         IN  CASE note.variant = "Full" ->
                    own_notes_loop_no_register(
                        r, Append(own_notes, PartialNoteOf(note.note)), Tail(notes))
               [] note.variant = "Partial" ->
                    own_notes_loop_no_register(
                        r, Append(own_notes, note.note), Tail(notes))
               [] note.variant = "Header" ->
                    Err("InvalidNoteVariant", r)

\* the loop of with_own_output_notes: the value of self and the error or
\* success it ends with
RECURSIVE own_notes_loop(_, _, _)
own_notes_loop(r, own_notes, notes) ==
    IF notes = <<>>
    THEN Ok([r EXCEPT !.script_template = Some(SendNotes(own_notes))])
    ELSE LET note == Head(notes)
         IN  CASE note.variant = "Full" ->
                    own_notes_loop(
                        [r EXCEPT !.expected_output_notes =
                                      Insert(@, NoteIdOf(note.note), note.note)],
                        Append(own_notes, PartialNoteOf(note.note)),
                        Tail(notes))
               [] note.variant = "Partial" ->
                    own_notes_loop(r, Append(own_notes, note.note), Tail(notes))
               [] note.variant = "Header" ->
                    Err("InvalidNoteVariant", r)

\* mutant: the expected output notes are cleared before the own notes are added
with_own_output_notes_clearing(r, notes) ==
    IF r.script_template # None
    THEN Err("ScriptTemplateError", r)
    ELSE own_notes_loop([r EXCEPT !.expected_output_notes = EmptyMap], <<>>, notes)

\* mutant: the check for an already set template is missing
with_own_output_notes_unguarded(r, notes) == own_notes_loop(r, <<>>, notes)

with_own_output_notes_fn(r, notes) ==
    IF r.script_template # None
    THEN Err("ScriptTemplateError", r)
    ELSE own_notes_loop(r, <<>>, notes)

\* mutant: the script replaces a template that is already set
with_custom_script_overwrite(r, script) ==
    Ok([r EXCEPT !.script_template = Some(CustomScript(script))])

with_custom_script_fn(r, script) ==
    IF r.script_template # None
    THEN Err("ScriptTemplateError", r)
    ELSE Ok([r EXCEPT !.script_template = Some(CustomScript(script))])

\* mutant: the notes are merged into the map instead of replacing it
with_expected_output_notes_merge(r, notes) ==
    [r EXCEPT !.expected_output_notes = FromIter(@, notes, "note")]

with_expected_output_notes_fn(r, notes) ==
    [r EXCEPT !.expected_output_notes = FromIter(EmptyMap, notes, "note")]

with_expected_future_notes_fn(r, notes) ==
    [r EXCEPT !.expected_future_notes = FromIter(EmptyMap, notes, "details")]

\* AdviceMap::extend: inserts every (digest, values) pair in order
RECURSIVE extend_advice_map_fn(_, _)
extend_advice_map_fn(r, entries) ==
    IF entries = <<>> THEN r
    ELSE extend_advice_map_fn(
             [r EXCEPT !.advice_map = Insert(@, Head(entries)[1], Head(entries)[2])],
             Tail(entries))

\* MerkleStore::extend: adds the inner nodes
extend_merkle_store_fn(r, nodes) ==
    [r EXCEPT !.merkle_store = @ \cup Range(nodes)]

\* ----------------------------------------------- standardized requests
\* What a note factory of miden_lib returns: a note (create_swap_note: a
\* note and the details of the payback note), or a NoteError.
Created(x) == [ok |-> TRUE, val |-> x]

NoteError == [ok |-> FALSE, val |-> "NoteError"]

NoteOutcomes == {Created(n) : n \in Notes} \cup {NoteError}

SwapOutcomes == {Created(<<n, d>>) : n \in Notes, d \in NoteDetailsSet} \cup {NoteError}

RecallHeights == {None, Some(1)}

\* the ? on a factory's result: From<NoteError> makes it NoteCreationError,
\* and no request exists yet
Failed(e) == [status |-> e]

\* mutant: every id is given the args word 1 instead of no args
consume_notes_with_args(note_ids) ==
    authenticated_loop(new, [i \in DOMAIN note_ids |-> <<note_ids[i], Some(1)>>])

consume_notes_fn(note_ids) ==
    LET input_notes == [i \in DOMAIN note_ids |-> <<note_ids[i], None>>]
    IN  authenticated_loop(new, input_notes)

mint_fungible_asset_fn(created) ==
    IF ~created.ok THEN Failed("NoteCreationError")
    ELSE with_own_output_notes_fn(new, <<Full(created.val)>>)

\* create_p2idr_note is called with a recall height, create_p2id_note
\* without; created is what the factory called returns
pay_to_id_fn(recall_height, created) ==
    IF ~created.ok THEN Failed("NoteCreationError")
    ELSE with_own_output_notes_fn(new, <<Full(created.val)>>)

\* mutant: the payback note is not recorded as an expected future note
swap_no_future(created) ==
    IF ~created.ok THEN Failed("NoteCreationError")
    ELSE with_own_output_notes_fn(new, <<Full(created.val[1])>>)

swap_fn(created) ==
    IF ~created.ok THEN Failed("NoteCreationError")
    ELSE LET created_note == created.val[1]
             payback_note_details == created.val[2]
         IN  with_own_output_notes_fn(
                 with_expected_future_notes_fn(new, <<payback_note_details>>),
                 <<Full(created_note)>>)

\* ------------------------------------------------------------- accessors
unauthenticated_input_note_ids(r) ==
    [i \in DOMAIN r.unauthenticated_input_notes |->
        NoteIdOf(r.unauthenticated_input_notes[i])]

\* the keys of a BTreeMap in iteration (ascending) order
RECURSIVE SortedKeys(_)
SortedKeys(S) ==
    IF S = {} THEN <<>>
    ELSE LET k == CHOOSE x \in S : \A y \in S : x <= y
         IN  <<k>> \o SortedKeys(S \ {k})

\* mutant: the ids of the unauthenticated notes are not filtered out
authenticated_input_note_ids_unfiltered(r) == SortedKeys(DOMAIN r.input_notes)

\* the iterator's items, in the order it yields them
authenticated_input_note_ids(r) ==
    LET unauthenticated_note_ids == Range(unauthenticated_input_note_ids(r))
    IN  SelectSeq(SortedKeys(DOMAIN r.input_notes),
                  LAMBDA note_id : note_id \notin unauthenticated_note_ids)

\* mutant: an id without args is given the default word
RECURSIVE get_note_args_defaulted(_, _, _)
get_note_args_defaulted(r, keys, acc) ==
    IF keys = <<>> THEN acc
    ELSE get_note_args_defaulted(
             r, Tail(keys),
             Insert(acc, Head(keys),
                    IF r.input_notes[Head(keys)] = None THEN 1
                    ELSE r.input_notes[Head(keys)][1]))

\* the filter_map of get_note_args over the entries in key order, collected
\* into acc
RECURSIVE note_args_filter_map(_, _, _)
note_args_filter_map(r, keys, acc) ==
    IF keys = <<>> THEN acc
    ELSE LET note == Head(keys)
             args == r.input_notes[note]
         IN  note_args_filter_map(
                 r, Tail(keys),
                 IF args = None THEN acc ELSE Insert(acc, note, args[1]))

get_note_args(r) ==
    note_args_filter_map(r, SortedKeys(DOMAIN r.input_notes), EmptyMap)

\* BTreeMap::into_values: the values by ascending key
into_values(m) ==
    LET keys == SortedKeys(DOMAIN m) IN [i \in DOMAIN keys |-> m[keys[i]]]

\* TransactionArgs, as far as the request fills it: what it was constructed
\* with and what it was extended with afterwards
TransactionArgs_new(tx_script, note_args, advice_map) ==
    [ tx_script |-> tx_script,
      note_args |-> note_args,
      advice_map |-> advice_map,
      expected_output_notes |-> <<>>,
      inner_nodes |-> {} ]

extend_expected_output_notes(args, notes) ==
    [args EXCEPT !.expected_output_notes = @ \o notes]

extend_tx_args_merkle_store(args, nodes) ==
    [args EXCEPT !.inner_nodes = @ \cup nodes]

\* mutant: the script of the request's own template is handed on when it has one
into_transaction_args_own_script(r, tx_script) ==
    LET script == IF r.script_template # None /\ r.script_template[1].variant = "CustomScript"
                  THEN r.script_template[1].script ELSE tx_script
    IN  extend_tx_args_merkle_store(
            extend_expected_output_notes(
                TransactionArgs_new(Some(script), Some(get_note_args(r)), r.advice_map),
                into_values(r.expected_output_notes)),
            r.merkle_store)

into_transaction_args_fn(r, tx_script) ==
    LET note_args == get_note_args(r)
        tx_args_new == TransactionArgs_new(Some(tx_script), Some(note_args), r.advice_map)
    IN  extend_tx_args_merkle_store(
            extend_expected_output_notes(tx_args_new, into_values(r.expected_output_notes)),
            r.merkle_store)

\* -------------------------------------------------------- builder actions
\* A builder method takes the request by value. The client calls it in the
\* build phase; an infallible method or an Ok gives the request back, an
\* Err drops the moved value and the client goes on with the request it
\* called the method on (TransactionRequest is Clone).
Returns(op, args, res) ==
    /\ pc = "build"
    /\ calls < MaxCalls
    /\ calls' = calls + 1
    /\ call' = [op |-> op, args |-> args, status |-> res.status]
    /\ self' = res.self
    /\ req' = IF res.status = "Ok" THEN res.self ELSE req
    /\ UNCHANGED <<pc, buffer, decoded, tx_args>>

with_unauthenticated_input_notes(notes) ==
    Returns("with_unauthenticated_input_notes", notes, Ok(unauthenticated_loop(req, notes)))

with_authenticated_input_notes(notes) ==
    Returns("with_authenticated_input_notes", notes, Ok(authenticated_loop(req, notes)))

with_own_output_notes(notes) ==
    Returns("with_own_output_notes", notes, with_own_output_notes_fn(req, notes))

with_custom_script(script) ==
    Returns("with_custom_script", script, with_custom_script_fn(req, script))

with_expected_output_notes(notes) ==
    Returns("with_expected_output_notes", notes, Ok(with_expected_output_notes_fn(req, notes)))

with_expected_future_notes(notes) ==
    Returns("with_expected_future_notes", notes, Ok(with_expected_future_notes_fn(req, notes)))

extend_advice_map(iter) ==
    Returns("extend_advice_map", iter, Ok(extend_advice_map_fn(req, iter)))

extend_merkle_store(iter) ==
    Returns("extend_merkle_store", iter, Ok(extend_merkle_store_fn(req, iter)))

\* A standardized constructor is an associated function: it takes no
\* request and returns a fresh one. The client calls it in place of the
\* first builder call; when the note factory fails there is no request, and
\* the client is left with what it had.
Constructs(op, args, res) ==
    /\ pc = "build"
    /\ calls = 0
    /\ calls' = calls + 1
    /\ call' = [op |-> op, args |-> args, status |-> res.status]
    /\ IF res.status = "Ok"
       THEN req' = res.self /\ self' = res.self
       ELSE UNCHANGED <<req, self>>
    /\ UNCHANGED <<pc, buffer, decoded, tx_args>>

consume_notes(note_ids) ==
    Constructs("consume_notes", note_ids, Ok(consume_notes_fn(note_ids)))

mint_fungible_asset(created) ==
    Constructs("mint_fungible_asset", created, mint_fungible_asset_fn(created))

pay_to_id(recall_height, created) ==
    Constructs("pay_to_id", <<recall_height, created>>, pay_to_id_fn(recall_height, created))

swap(created) ==
    Constructs("swap", created, swap_fn(created))

\* The terminal conversion: the request is moved into the call and only the
\* argument bundle comes back.
into_transaction_args(tx_script) ==
    /\ pc = "build"
    /\ calls < MaxCalls
    /\ calls' = calls + 1
    /\ pc' = "converted"
    /\ call' = [op |-> "into_transaction_args", args |-> tx_script, status |-> "Ok"]
    /\ self' = req
    /\ tx_args' = into_transaction_args_fn(req, tx_script)
    /\ UNCHANGED <<req, buffer, decoded>>

\* ------------------------------------------------------------------ codec
\* A byte stream is a sequence of numbers. The collaborators' own encodings
\* (Note, NoteId, PartialNote, NoteDetails, Digest, Felt, inner node) are one
\* byte each; the layout above them is the one this file writes and reads.
Bytes == 0..MaxByte

RECURSIVE Flatten(_)
Flatten(seqs) == IF seqs = <<>> THEN <<>> ELSE Head(seqs) \o Flatten(Tail(seqs))

\* Option<NoteArgs>::write_into
write_option(o) == IF o = None THEN <<0>> ELSE <<1, o[1]>>

\* TransactionScript::write_into: the program, from which the hash follows
write_script(script) == <<script.hash>>

write_item(kind, x) ==
    CASE kind = "note" -> <<x>>
      [] kind = "partial" -> <<x.partial>>
      [] kind = "details" -> <<x.details>>
      [] kind = "felt" -> <<x>>
      [] kind = "node" -> <<x>>

\* Vec<T>::write_into: the length, then the items in order
write_vec(kind, v) ==
    <<Len(v)>> \o Flatten([i \in DOMAIN v |-> write_item(kind, v[i])])

\* the keys of a map by descending key
RECURSIVE DescendingKeys(_)
DescendingKeys(S) ==
    IF S = {} THEN <<>>
    ELSE LET k == CHOOSE x \in S : \A y \in S : x >= y
         IN  <<k>> \o DescendingKeys(S \ {k})

\* mutant: the entries are written by descending key
write_map_descending(kind, m) ==
    LET keys == DescendingKeys(DOMAIN m)
    IN  <<Len(keys)>> \o
        Flatten([i \in DOMAIN keys |->
            <<keys[i]>> \o (IF kind = "args" THEN write_option(m[keys[i]])
                            ELSE write_item(kind, m[keys[i]]))])

\* BTreeMap<NoteId, V>::write_into: the length, then (key, value) by ascending key
write_map(kind, m) ==
    LET keys == SortedKeys(DOMAIN m)
    IN  <<Len(keys)>> \o
        Flatten([i \in DOMAIN keys |->
            <<keys[i]>> \o (IF kind = "args" THEN write_option(m[keys[i]])
                            ELSE write_item(kind, m[keys[i]]))])

\* the advice map collected into a Vec<(Digest, Vec<Felt>)> in the order
\* the map's iterator yields its entries (order: a sequence of its keys)
write_advice(m, order) ==
    <<Len(order)>> \o
    Flatten([i \in DOMAIN order |-> <<order[i]>> \o write_vec("felt", m[order[i]])])

\* MerkleStore::write_into
write_merkle_store(store) == write_vec("node", SortedKeys(store))

\* mutant: the discriminants of the two set variants are exchanged
write_template_exchanged(t) ==
    IF t = None THEN <<0>>
    ELSE IF t[1].variant = "CustomScript" THEN <<2>> \o write_script(t[1].script)
    ELSE <<1>> \o write_vec("partial", t[1].notes)

write_template(t) ==
    IF t = None THEN <<0>>
    ELSE IF t[1].variant = "CustomScript" THEN <<1>> \o write_script(t[1].script)
    ELSE <<2>> \o write_vec("partial", t[1].notes)

\* mutant: the two expected-note maps are written in the other order
write_into_swapped(r, order) ==
    write_vec("note", r.unauthenticated_input_notes)
    \o write_map("args", r.input_notes)
    \o write_template(r.script_template)
    \o write_map("details", r.expected_future_notes)
    \o write_map("note", r.expected_output_notes)
    \o write_advice(r.advice_map, order)
    \o write_merkle_store(r.merkle_store)

\* Serializable for TransactionRequest
write_into(r, order) ==
    write_vec("note", r.unauthenticated_input_notes)
    \o write_map("args", r.input_notes)
    \o write_template(r.script_template)
    \o write_map("note", r.expected_output_notes)
    \o write_map("details", r.expected_future_notes)
    \o write_advice(r.advice_map, order)
    \o write_merkle_store(r.merkle_store)

\* the orders in which a map with these keys may be iterated
Orders(S) == {o \in [1..Cardinality(S) -> S] : Range(o) = S}

\* --- reading: every reader returns [ok, val, pos], pos the next byte to read
Bad == [ok |-> FALSE, val |-> "InvalidValue", pos |-> 0]

Eof == [ok |-> FALSE, val |-> "UnexpectedEOF", pos |-> 0]

Got(v, pos) == [ok |-> TRUE, val |-> v, pos |-> pos]

read_u8(s, pos) == IF pos > Len(s) THEN Eof ELSE Got(s[pos], pos + 1)

\* the ? operator: the error of a read ends the function, its value goes on
Then(x, Rest(_)) == IF ~x.ok THEN x ELSE Rest(x)

\* Option<NoteArgs>::read_from, after its tag byte b
read_option(b, s) ==
    CASE b.val = 0 -> Got(None, b.pos)
      [] b.val = 1 ->
           Then(read_u8(s, b.pos),
                LAMBDA w : IF w.val \in NoteArgs THEN Got(Some(w.val), w.pos) ELSE Bad)
      [] OTHER -> Bad

\* the value of a collaborator's type that the byte b denotes
item_of(kind, b, s) ==
    CASE kind = "note" -> IF b.val \in Notes THEN b ELSE Bad
      [] kind = "id" -> IF b.val \in NoteIds THEN b ELSE Bad
      [] kind = "partial" ->
           IF b.val \in Notes THEN Got(PartialNoteOf(b.val), b.pos) ELSE Bad
      [] kind = "details" ->
           IF b.val \in NoteIds THEN Got([details |-> b.val], b.pos) ELSE Bad
      [] kind = "digest" -> IF b.val \in Digests THEN b ELSE Bad
      [] kind = "felt" -> b
      [] kind = "node" -> IF b.val \in InnerNodes THEN b ELSE Bad
      [] kind = "args" -> read_option(b, s)

\* one value of a collaborator's type: the bytes must denote one
read_item(kind, s, pos) == Then(read_u8(s, pos), LAMBDA b : item_of(kind, b, s))

\* n items of one kind, in order
RECURSIVE read_items(_, _, _, _, _)
read_items(kind, s, pos, n, acc) ==
    IF n = 0 THEN Got(acc, pos)
    ELSE Then(read_item(kind, s, pos),
              LAMBDA x : read_items(kind, s, x.pos, n - 1, Append(acc, x.val)))

\* Vec<T>::read_from
read_vec(kind, s, pos) ==
    Then(read_u8(s, pos), LAMBDA n : read_items(kind, s, n.pos, n.val, <<>>))

\* the value of a map entry: a Vec<Felt> or one item
read_value(vkind, s, pos) ==
    IF vkind = "felts" THEN read_vec("felt", s, pos) ELSE read_item(vkind, s, pos)

\* n (key, value) pairs inserted into a map in the order read
RECURSIVE read_pairs(_, _, _, _, _, _)
read_pairs(kkind, vkind, s, pos, n, acc) ==
    IF n = 0 THEN Got(acc, pos)
    ELSE Then(read_item(kkind, s, pos), LAMBDA k :
         Then(read_value(vkind, s, k.pos), LAMBDA v :
         read_pairs(kkind, vkind, s, v.pos, n - 1, Insert(acc, k.val, v.val))))

\* BTreeMap<K, V>::read_from, and Vec<(Digest, Vec<Felt>)> extended into a map
read_map(kkind, vkind, s, pos) ==
    Then(read_u8(s, pos), LAMBDA n : read_pairs(kkind, vkind, s, n.pos, n.val, EmptyMap))

\* TransactionScript::read_from: rebuilds the program; its hash is the
\* original's, its structure is the rebuilt one
read_script(s, pos) ==
    Then(read_u8(s, pos), LAMBDA h :
         IF h.val \in {sc.hash : sc \in Scripts}
         THEN Got([hash |-> h.val, ast |-> 1], h.pos)
         ELSE Bad)

\* MerkleStore::read_from
read_merkle_store(s, pos) ==
    Then(read_vec("node", s, pos), LAMBDA v : Got(Range(v.val), v.pos))

\* mutant: an unknown discriminant is read as "no template"
read_template_fallback(s, pos) ==
    Then(read_u8(s, pos), LAMBDA d :
         CASE d.val = 1 ->
                Then(read_script(s, d.pos), LAMBDA transaction_script :
                     Got(Some(CustomScript(transaction_script.val)),
                         transaction_script.pos))
           [] d.val = 2 ->
                Then(read_vec("partial", s, d.pos), LAMBDA notes :
                     Got(Some(SendNotes(notes.val)), notes.pos))
           [] OTHER -> Got(None, d.pos))

\* the match on the script template discriminant
read_template(s, pos) ==
    Then(read_u8(s, pos), LAMBDA d :
         CASE d.val = 0 -> Got(None, d.pos)
           [] d.val = 1 ->
                Then(read_script(s, d.pos), LAMBDA transaction_script :
                     Got(Some(CustomScript(transaction_script.val)),
                         transaction_script.pos))
           [] d.val = 2 ->
                Then(read_vec("partial", s, d.pos), LAMBDA notes :
                     Got(Some(SendNotes(notes.val)), notes.pos))
           [] OTHER -> Bad)

\* mutant: a stream whose unauthenticated notes are not all keys of its
\* input_notes is rejected
read_from_validating(source) ==
    Then(read_vec("note", source, 1), LAMBDA unauthenticated_input_notes :
    Then(read_map("id", "args", source, unauthenticated_input_notes.pos),
         LAMBDA input_notes :
    Then(read_template(source, input_notes.pos), LAMBDA script_template :
    Then(read_map("id", "note", source, script_template.pos),
         LAMBDA expected_output_notes :
    Then(read_map("id", "details", source, expected_output_notes.pos),
         LAMBDA expected_future_notes :
    Then(read_map("digest", "felts", source, expected_future_notes.pos),
         LAMBDA advice_map :
    Then(read_merkle_store(source, advice_map.pos), LAMBDA merkle_store :
         IF \E i \in DOMAIN unauthenticated_input_notes.val :
                NoteIdOf(unauthenticated_input_notes.val[i]) \notin DOMAIN input_notes.val
         THEN Bad
         ELSE Got([ unauthenticated_input_notes |-> unauthenticated_input_notes.val,
                    input_notes |-> input_notes.val,
                    script_template |-> script_template.val,
                    expected_output_notes |-> expected_output_notes.val,
                    expected_future_notes |-> expected_future_notes.val,
                    advice_map |-> advice_map.val,
                    merkle_store |-> merkle_store.val ],
                  merkle_store.pos))))))))

\* Deserializable for TransactionRequest
read_from(source) ==
    Then(read_vec("note", source, 1), LAMBDA unauthenticated_input_notes :
    Then(read_map("id", "args", source, unauthenticated_input_notes.pos),
         LAMBDA input_notes :
    Then(read_template(source, input_notes.pos), LAMBDA script_template :
    Then(read_map("id", "note", source, script_template.pos),
         LAMBDA expected_output_notes :
    Then(read_map("id", "details", source, expected_output_notes.pos),
         LAMBDA expected_future_notes :
    Then(read_map("digest", "felts", source, expected_future_notes.pos),
         LAMBDA advice_map :
    Then(read_merkle_store(source, advice_map.pos), LAMBDA merkle_store :
         Got([ unauthenticated_input_notes |-> unauthenticated_input_notes.val,
               input_notes |-> input_notes.val,
               script_template |-> script_template.val,
               expected_output_notes |-> expected_output_notes.val,
               expected_future_notes |-> expected_future_notes.val,
               advice_map |-> advice_map.val,
               merkle_store |-> merkle_store.val ],
             merkle_store.pos))))))))

\* the position of the script template discriminant in a stream whose first
\* two sections read well (0 if they do not)
DiscriminantPos(source) ==
    LET m == Then(read_vec("note", source, 1),
                  LAMBDA u : read_map("id", "args", source, u.pos))
    IN  IF m.ok /\ m.pos <= Len(source) THEN m.pos ELSE 0

\* ---------------------------------------------------------------- equality
\* mutant: the two entry counts are not compared
same_advice_map_uncounted(a, b) ==
    \A k \in DOMAIN a : k \in DOMAIN b /\ b[k] = a[k]

\* PartialEq for TransactionRequest
same_advice_map(a, b) ==
    LET same_advice_map_count == Cardinality(DOMAIN a) = Cardinality(DOMAIN b)
    IN  /\ same_advice_map_count
        /\ \A k \in DOMAIN a : k \in DOMAIN b /\ b[k] = a[k]

\* mutant: two custom scripts are compared by structure
same_script_structural(a, b) == a = b

same_script(a, b) ==
    IF a = None THEN b = None
    ELSE IF a[1].variant = "CustomScript"
    THEN IF b # None /\ b[1].variant = "CustomScript"
         THEN b[1].script.hash = a[1].script.hash
         ELSE FALSE
    ELSE a = b

eq(a, b) ==
    /\ same_script(a.script_template, b.script_template)
    /\ a.unauthenticated_input_notes = b.unauthenticated_input_notes
    /\ a.input_notes = b.input_notes
    /\ a.expected_output_notes = b.expected_output_notes
    /\ a.expected_future_notes = b.expected_future_notes
    /\ same_advice_map(a.advice_map, b.advice_map)
    /\ a.merkle_store = b.merkle_store

\* ------------------------------------------------------------ codec actions
\* tx_request.write_into(&mut buffer), on a fresh buffer
Encode(order) ==
    /\ pc = "build"
    /\ calls < MaxCalls
    /\ calls' = calls + 1
    /\ pc' = "encoded"
    /\ buffer' = write_into(req, order)
    /\ call' = [op |-> "write_into", args |-> order, status |-> "Ok"]
    /\ self' = req
    /\ UNCHANGED <<req, decoded, tx_args>>

\* TransactionRequest::read_from_bytes(source)
Decode(source) ==
    /\ pc = "encoded"
    /\ pc' = "decoded"
    /\ LET res == read_from(source)
       IN  /\ decoded' = IF res.ok THEN [status |-> "Ok", value |-> Some(res.val)]
                         ELSE [status |-> res.val, value |-> None]
           /\ call' = [op |-> "read_from", args |-> source,
                       status |-> IF res.ok THEN "Ok" ELSE res.val]
    /\ UNCHANGED <<req, self, calls, buffer, tx_args>>

\* the streams handed to read_from: the buffer as written, and the buffer
\* with one byte replaced
Sources(b) ==
    {b} \cup {[b EXCEPT ![i] = x] : i \in DOMAIN b, x \in Bytes}

Init ==
    /\ req = new
    /\ self = new
    /\ call = [op |-> "new", args |-> <<>>, status |-> "Ok"]
    /\ calls = 0
    /\ pc = "build"
    /\ buffer = <<>>
    /\ decoded = [status |-> "NotRead", value |-> None]
    /\ tx_args = None

Next ==
    \/ \E notes \in ListsOf(Notes \X OptNoteArgs) : with_unauthenticated_input_notes(notes)
    \/ \E notes \in ListsOf(NoteIds \X OptNoteArgs) : with_authenticated_input_notes(notes)
    \/ \E notes \in ListsOf(OutputNotes) : with_own_output_notes(notes)
    \/ \E script \in Scripts : with_custom_script(script)
    \/ \E notes \in ListsOf(Notes) : with_expected_output_notes(notes)
    \/ \E notes \in ListsOf(NoteDetailsSet) : with_expected_future_notes(notes)
    \/ \E iter \in ListsOf(Digests \X FeltVecs) : extend_advice_map(iter)
    \/ \E iter \in ListsOf(InnerNodes) : extend_merkle_store(iter)
    \/ \E note_ids \in ListsOf(NoteIds) : consume_notes(note_ids)
    \/ \E created \in NoteOutcomes : mint_fungible_asset(created)
    \/ \E recall_height \in RecallHeights, created \in NoteOutcomes :
           pay_to_id(recall_height, created)
    \/ \E created \in SwapOutcomes : swap(created)
    \/ \E tx_script \in Scripts : into_transaction_args(tx_script)
    \/ \E order \in Orders(DOMAIN req.advice_map) : Encode(order)
    \/ \E source \in Sources(buffer) : Decode(source)

Spec == Init /\ [][Next]_vars

\* ------------------------------------------------------------------ claims
UnauthenticatedIds(r) == {NoteIdOf(n) : n \in Range(r.unauthenticated_input_notes)}

TemplateSet(r) == r.script_template # None

TemplateOps == {"with_custom_script", "with_own_output_notes"}

HasHeader(notes) == \E i \in DOMAIN notes : notes[i].variant = "Header"

\* C1: in every request the builder operations reach, the id of every note
\* in unauthenticated_input_notes is a key of input_notes.
C1_UnauthenticatedIdsAreInputKeys ==
    \A i \in DOMAIN req.unauthenticated_input_notes :
        NoteIdOf(req.unauthenticated_input_notes[i]) \in DOMAIN req.input_notes

\* C1 witness: unauthenticated notes with two different ids are held, and
\* the last call was another builder operation.
C1_Witness ==
    /\ Cardinality(UnauthenticatedIds(req)) = 2
    /\ call.op = "with_authenticated_input_notes"
    /\ call.args # <<>>

\* C2: the script template is Unset after new(); every step that changes
\* it starts from Unset and ends in CustomScript or SendNotes; once set, no
\* step (a failing or a successful call of any operation) changes it.
C2_TemplateSetOnce ==
    /\ req.script_template = None
    /\ [][ /\ TemplateSet(req) => req'.script_template = req.script_template
           /\ req'.script_template # req.script_template =>
                 /\ ~TemplateSet(req)
                 /\ req'.script_template[1].variant \in {"CustomScript", "SendNotes"}
         ]_vars

\* C2 witness: a template is set and the third call on the request, a
\* with_custom_script, has failed.
C2_Witness ==
    /\ TemplateSet(req)
    /\ calls = 3
    /\ call.op = "with_custom_script"
    /\ call.status = "ScriptTemplateError"

\* C3: with a template already set, with_custom_script and
\* with_own_output_notes fail with ScriptTemplateError for every argument,
\* and the moved request is, where the call fails, equal in every field to
\* the request the call was made on.
C3_MutualExclusion ==
    [][ (TemplateSet(req) /\ call'.op \in TemplateOps) =>
            /\ call'.status = "ScriptTemplateError"
            /\ self' = req
            /\ req' = req
      ]_vars

\* C3 witness: with_own_output_notes, given a list with a header-only note,
\* has failed with ScriptTemplateError on a request whose template is set.
C3_Witness ==
    /\ call.op = "with_own_output_notes"
    /\ call.status = "ScriptTemplateError"
    /\ HasHeader(call.args)
    /\ TemplateSet(req)

\* C4: when with_own_output_notes fails with InvalidNoteVariant, the moved
\* request holds, where the call fails, the expected_output_notes and the
\* template the request had before the call: no valid note of the list has
\* been registered.
C4_RejectionAtomicity ==
    call.status = "InvalidNoteVariant" =>
        /\ self.expected_output_notes = req.expected_output_notes
        /\ self.script_template = req.script_template

\* C4 failing input: with_own_output_notes([Full(1), Header]) on new()
C4_FailingInput ==
    /\ call.op = "with_own_output_notes"
    /\ call.args = <<Full(1), Header(1)>>
    /\ call.status = "InvalidNoteVariant"
    /\ self.expected_output_notes # req.expected_output_notes

Decoded == decoded.value[1]

\* the requests a state holds
Requests ==
    {req, self} \cup (IF decoded.status = "Ok" THEN {Decoded} ELSE {})

IsCustom(t) == t # None /\ t[1].variant = "CustomScript"

IsSendNotes(t) == t # None /\ t[1].variant = "SendNotes"

\* C5: decoding the bytes write_into produced for a request the builder
\* operations reach succeeds and yields a request the custom equality
\* finds equal to it.
C5_RoundTrip ==
    (pc = "decoded" /\ call.args = buffer) =>
        /\ decoded.status = "Ok"
        /\ eq(req, Decoded)

\* C5 witness: the bytes of a request with a custom script and two advice
\* entries were decoded as written, into a request that differs in structure.
C5_Witness ==
    /\ pc = "decoded"
    /\ call.args = buffer
    /\ IsCustom(req.script_template)
    /\ Cardinality(DOMAIN req.advice_map) = 2
    /\ decoded.status = "Ok"
    /\ Decoded # req

\* C6: authenticated_input_note_ids() yields, each once, exactly the keys of
\* input_notes that are not the id of an unauthenticated note; so the
\* result is fixed by those two sets, whatever order the calls came in.
C6_AuthenticatedIds ==
    \A r \in Requests :
        LET ids == authenticated_input_note_ids(r)
        IN  /\ Range(ids) = DOMAIN r.input_notes \ UnauthenticatedIds(r)
            /\ Len(ids) = Cardinality(Range(ids))

\* C6 witness: an id was added as authenticated first and unauthenticated
\* notes after it, and one id is still reported as authenticated.
C6_Witness ==
    /\ call.op = "with_unauthenticated_input_notes"
    /\ calls >= 2
    /\ req.unauthenticated_input_notes # <<>>
    /\ authenticated_input_note_ids(req) # <<>>

\* C7: a stream whose first two sections read well and whose script
\* template discriminant is not 0, 1 or 2 decodes to the InvalidValue error
\* and to no request.
C7_UnknownDiscriminantRejected ==
    (/\ pc = "decoded"
     /\ DiscriminantPos(call.args) # 0
     /\ call.args[DiscriminantPos(call.args)] \notin {0, 1, 2}) =>
        /\ decoded.status = "InvalidValue"
        /\ decoded.value = None

\* C7 witness: a stream with discriminant 3 in place of a written 2 was decoded.
C7_Witness ==
    /\ pc = "decoded"
    /\ DiscriminantPos(call.args) # 0
    /\ call.args[DiscriminantPos(call.args)] = 3
    /\ IsSendNotes(req.script_template)

Entries(m) == {<<k, m[k]>> : k \in DOMAIN m}

\* what the request equality is to decide
EqualRequests(a, b) ==
    /\ Cardinality(DOMAIN a.advice_map) = Cardinality(DOMAIN b.advice_map)
    /\ Entries(a.advice_map) = Entries(b.advice_map)
    /\ \/ a.script_template = None /\ b.script_template = None
       \/ /\ IsSendNotes(a.script_template)
          /\ IsSendNotes(b.script_template)
          /\ a.script_template[1].notes = b.script_template[1].notes
       \/ /\ IsCustom(a.script_template)
          /\ IsCustom(b.script_template)
          /\ a.script_template[1].script.hash = b.script_template[1].script.hash
    /\ a.unauthenticated_input_notes = b.unauthenticated_input_notes
    /\ a.input_notes = b.input_notes
    /\ a.expected_output_notes = b.expected_output_notes
    /\ a.expected_future_notes = b.expected_future_notes
    /\ a.merkle_store = b.merkle_store

\* C8: the request equality is true exactly when the advice maps hold the
\* same entries, the templates are both Unset, both SendNotes with equal
\* lists or both CustomScript with equal script hash, and the other five
\* fields are structurally equal.
C8_Equality ==
    \A a \in Requests : \A b \in Requests : eq(a, b) <=> EqualRequests(a, b)

\* C8 witness: a request and a decoded one that differ only in the
\* structure of a custom script of one hash are equal, in both directions.
C8_Witness ==
    /\ decoded.status = "Ok"
    /\ IsCustom(req.script_template)
    /\ IsCustom(Decoded.script_template)
    /\ req.script_template # Decoded.script_template
    /\ eq(req, Decoded)
    /\ eq(Decoded, req)

\* C8 second witness: two custom scripts of different hash make the
\* requests unequal.
C8_WitnessUnequal ==
    /\ decoded.status = "Ok"
    /\ IsCustom(req.script_template)
    /\ IsCustom(Decoded.script_template)
    /\ [Decoded EXCEPT !.script_template = req.script_template] = req
    /\ ~eq(req, Decoded)

FullNotes(notes) == {i \in DOMAIN notes : notes[i].variant = "Full"}

FullIds(notes) == {NoteIdOf(notes[i].note) : i \in FullNotes(notes)}

\* the partial form of an own note: a full note reduced, a partial note as it is
PartialForm(note) ==
    IF note.variant = "Full" THEN PartialNoteOf(note.note) ELSE note.note

\* the last index of the list at which a note of this id stands
LastIndex(ids, id) ==
    CHOOSE i \in DOMAIN ids : ids[i] = id /\ \A j \in DOMAIN ids : ids[j] = id => j <= i

OwnNotesSucceeds ==
    (call'.op = "with_own_output_notes" /\ ~TemplateSet(req) /\ ~HasHeader(call'.args))
        => call'.status = "Ok"

OwnNotesTemplate ==
    req'.script_template =
        Some(SendNotes([i \in DOMAIN call'.args |-> PartialForm(call'.args[i])]))

OwnNotesKeys ==
    /\ DOMAIN req'.expected_output_notes =
           DOMAIN req.expected_output_notes \cup FullIds(call'.args)
    /\ \A k \in DOMAIN req.expected_output_notes \ FullIds(call'.args) :
           req'.expected_output_notes[k] = req.expected_output_notes[k]

\* C9 as stated: after a successful with_own_output_notes the id of every
\* supplied full note is a key of expected_output_notes mapped to that note.
C9_EveryFullNoteRegistered ==
    [][ /\ OwnNotesSucceeds
        /\ (call'.op = "with_own_output_notes" /\ call'.status = "Ok") =>
              /\ OwnNotesTemplate
              /\ OwnNotesKeys
              /\ \A i \in FullNotes(call'.args) :
                    req'.expected_output_notes[NoteIdOf(call'.args[i].note)]
                        = call'.args[i].note
      ]_vars

\* C9 amended: with an Unset template and no header-only note the call
\* succeeds; the template is SendNotes of the partial forms in the supplied
\* order; the keys of expected_output_notes grow by the ids of the supplied
\* full notes and by nothing else; each such id is mapped to the last
\* supplied full note of that id.
C9_LastFullNoteRegistered ==
    [][ /\ OwnNotesSucceeds
        /\ (call'.op = "with_own_output_notes" /\ call'.status = "Ok") =>
              /\ OwnNotesTemplate
              /\ OwnNotesKeys
              /\ \A i \in FullNotes(call'.args) :
                    LET id == NoteIdOf(call'.args[i].note)
                    IN  (\A j \in FullNotes(call'.args) :
                            NoteIdOf(call'.args[j].note) = id => j <= i)
                        => req'.expected_output_notes[id] = call'.args[i].note
      ]_vars

\* C9 witness: with_own_output_notes has succeeded on a full note followed
\* by a partial note, on a request that already expected an output note.
C9_Witness ==
    /\ call.op = "with_own_output_notes"
    /\ call.status = "Ok"
    /\ Len(call.args) = 2
    /\ call.args[1].variant = "Full"
    /\ call.args[2].variant = "Partial"
    /\ Cardinality(DOMAIN req.expected_output_notes) = 2

\* the map a list of notes is to become: each id of the list, mapped to
\* the last note of the list with that id
LastById(notes, ids) ==
    [k \in Range(ids) |-> notes[LastIndex(ids, k)]]

\* C10: with_expected_output_notes and with_expected_future_notes replace
\* their map by the supplied notes keyed by id, the last note of an id
\* winning, so that no earlier entry stays unless supplied again, and
\* change no other field.
C10_ExpectedNotesReplaced ==
    [][ /\ call'.op = "with_expected_output_notes" =>
              /\ req'.expected_output_notes =
                     LastById(call'.args, [i \in DOMAIN call'.args |-> NoteIdOf(call'.args[i])])
              /\ req' = [req EXCEPT !.expected_output_notes = req'.expected_output_notes]
        /\ call'.op = "with_expected_future_notes" =>
              /\ req'.expected_future_notes =
                     LastById(call'.args, [i \in DOMAIN call'.args |-> DetailsId(call'.args[i])])
              /\ req' = [req EXCEPT !.expected_future_notes = req'.expected_future_notes]
      ]_vars

\* C10 witness: with_expected_output_notes, given two notes of one id, has
\* replaced a map that held the own note the template sends.
C10_Witness ==
    /\ call.op = "with_expected_output_notes"
    /\ Len(call.args) = 2
    /\ call.args[1] # call.args[2]
    /\ NoteIdOf(call.args[1]) = NoteIdOf(call.args[2])
    /\ IsSendNotes(req.script_template)
    /\ \E i \in DOMAIN req.script_template[1].notes :
          NoteIdOf(req.script_template[1].notes[i].partial)
              \notin DOMAIN req.expected_output_notes

NoteConstructors == {"mint_fungible_asset", "pay_to_id", "swap"}

\* what the note factory returned to the constructor call c
FactoryOutcome(c) == IF c.op = "pay_to_id" THEN c.args[2] ELSE c.args

\* the note the factory generated for the constructor call c
GeneratedNote(c) ==
    IF c.op = "swap" THEN FactoryOutcome(c).val[1] ELSE FactoryOutcome(c).val

\* C11: for any note the factory returns, mint_fungible_asset and pay_to_id
\* (with or without recall height) return a request with exactly one expected
\* output note, keyed by the generated note's id, a SendNotes template of
\* exactly one partial note, and no input notes and no expected future
\* notes; swap returns the same plus exactly one expected future note keyed
\* by the id of the payback details. If the factory fails, the constructor
\* returns NoteCreationError and no request.
C11_StandardizedConstructors ==
    [][ call'.op \in NoteConstructors =>
          IF FactoryOutcome(call').ok
          THEN /\ call'.status = "Ok"
               /\ DOMAIN req'.expected_output_notes = {NoteIdOf(GeneratedNote(call'))}
               /\ IsSendNotes(req'.script_template)
               /\ Len(req'.script_template[1].notes) = 1
               /\ req'.script_template[1].notes[1] \in PartialNotes
               /\ DOMAIN req'.input_notes = {}
               /\ req'.unauthenticated_input_notes = <<>>
               /\ DOMAIN req'.expected_future_notes =
                      IF call'.op = "swap"
                      THEN {DetailsId(FactoryOutcome(call').val[2])}
                      ELSE {}
          ELSE /\ call'.status = "NoteCreationError"
               /\ req' = req
               /\ self' = self
      ]_vars

\* C11 witness: swap has returned a request whose expected output note and
\* expected future note have different ids.
C11_Witness ==
    /\ call.op = "swap"
    /\ call.status = "Ok"
    /\ calls = 1
    /\ DOMAIN req.expected_output_notes = {2}
    /\ DOMAIN req.expected_future_notes = {1}

\* C11 second witness: pay_to_id with a recall height has failed in the factory.
C11_WitnessFailure ==
    /\ call.op = "pay_to_id"
    /\ call.args[1] # None
    /\ call.status = "NoteCreationError"
    /\ req = new

\* C12: consume_notes(ids) returns a request whose input_notes key set is
\* exactly the set of the given ids, each mapped to no args, whose
\* authenticated_input_note_ids() is that set, and whose unauthenticated
\* list is empty, template Unset and expected-note maps empty.
C12_ConsumeNotes ==
    [][ call'.op = "consume_notes" =>
          /\ call'.status = "Ok"
          /\ DOMAIN req'.input_notes = Range(call'.args)
          /\ \A id \in DOMAIN req'.input_notes : req'.input_notes[id] = None
          /\ Range(authenticated_input_note_ids(req')) = Range(call'.args)
          /\ req'.unauthenticated_input_notes = <<>>
          /\ req'.script_template = None
          /\ req'.expected_output_notes = EmptyMap
          /\ req'.expected_future_notes = EmptyMap
      ]_vars

\* C12 witness: consume_notes was given two different ids, the larger first.
C12_Witness ==
    /\ call.op = "consume_notes"
    /\ Len(call.args) = 2
    /\ call.args[1] > call.args[2]
    /\ Cardinality(DOMAIN req.input_notes) = 2

\* the ids of input_notes whose args are defined
WithArgs(r) == {id \in DOMAIN r.input_notes : r.input_notes[id] # None}

\* C13: in every reachable request get_note_args() is the restriction of
\* input_notes to the ids whose args are defined: an id is a key of the
\* result iff it is a key of input_notes with defined args, and it is mapped
\* to those args; ids with undefined args never appear.
C13_NoteArgs ==
    \A r \in Requests :
        LET note_args == get_note_args(r)
        IN  /\ DOMAIN note_args = WithArgs(r)
            /\ \A id \in DOMAIN note_args : Some(note_args[id]) = r.input_notes[id]
            /\ \A id \in DOMAIN r.input_notes :
                  r.input_notes[id] = None => id \notin DOMAIN note_args

\* C13 witness: a request with one id with args and one id without was
\* converted, and the bundle's note args hold the one id.
C13_Witness ==
    /\ pc = "converted"
    /\ Cardinality(DOMAIN req.input_notes) = 2
    /\ Cardinality(WithArgs(req)) = 1
    /\ DOMAIN tx_args.note_args[1] = WithArgs(req)

\* C14: the terminal conversion of a request R with a compiled script S
\* yields a bundle whose script is S (not R's template), whose note-args map
\* is R.get_note_args(), whose advice data is R's advice map, and which was
\* extended with every value of R.expected_output_notes and every inner
\* node of R's merkle store; expected_future_notes, the unauthenticated
\* note list and the template do not flow into the bundle.
C14_TerminalConversion ==
    pc = "converted" =>
        /\ tx_args.tx_script = Some(call.args)
        /\ tx_args.note_args = Some(get_note_args(req))
        /\ tx_args.advice_map = req.advice_map
        /\ Range(tx_args.expected_output_notes) = Range(req.expected_output_notes)
        /\ Len(tx_args.expected_output_notes) = Cardinality(DOMAIN req.expected_output_notes)
        /\ tx_args.inner_nodes = req.merkle_store
        /\ tx_args = into_transaction_args_fn(
                         [req EXCEPT !.expected_future_notes = EmptyMap,
                                     !.unauthenticated_input_notes = <<>>,
                                     !.script_template = None],
                         call.args)

\* C14 witness: a request with a custom script and an expected output note
\* was converted with another script.
C14_Witness ==
    /\ pc = "converted"
    /\ IsCustom(req.script_template)
    /\ req.script_template[1].script # call.args
    /\ req.expected_output_notes # EmptyMap

\* C14 second witness: a request with an unauthenticated note with args and
\* an expected future note was converted.
C14_WitnessNoFlow ==
    /\ pc = "converted"
    /\ req.unauthenticated_input_notes # <<>>
    /\ req.expected_future_notes # EmptyMap
    /\ WithArgs(req) # {}

\* the first components / the ids of the first components of a list of pairs
Firsts(pairs) == [i \in DOMAIN pairs |-> pairs[i][1]]

NoteIdsOf(notes) == [i \in DOMAIN notes |-> NoteIdOf(notes[i])]

\* C15: with_unauthenticated_input_notes processes its pairs in order: for
\* each it sets input_notes[note id] to the pair's args, overwriting earlier
\* args of that id, and appends the note to the unauthenticated list; an id
\* supplied twice (in one call or across calls) has a single input_notes
\* entry holding the last supplied args while the list holds the note twice.
C15_UnauthenticatedDuplicates ==
    [][ call'.op = "with_unauthenticated_input_notes" =>
          LET ids == NoteIdsOf(Firsts(call'.args))
          IN  /\ req'.unauthenticated_input_notes =
                     req.unauthenticated_input_notes \o Firsts(call'.args)
              /\ DOMAIN req'.input_notes = DOMAIN req.input_notes \cup Range(ids)
              /\ \A id \in Range(ids) :
                    req'.input_notes[id] = call'.args[LastIndex(ids, id)][2]
              /\ \A id \in DOMAIN req.input_notes \ Range(ids) :
                    req'.input_notes[id] = req.input_notes[id]
      ]_vars

\* C15 witness: one call supplied the same note twice, first with args and
\* then without: the map holds one entry without args, the list the note twice.
C15_Witness ==
    /\ call.op = "with_unauthenticated_input_notes"
    /\ Len(call.args) = 2
    /\ call.args[1][1] = call.args[2][1]
    /\ call.args[1][2] # None
    /\ call.args[2][2] = None
    /\ req.input_notes = Insert(EmptyMap, NoteIdOf(call.args[1][1]), None)
    /\ req.unauthenticated_input_notes = Firsts(call.args)

\* C15 second witness: the same id was supplied by two calls.
C15_WitnessAcrossCalls ==
    /\ call.op = "with_unauthenticated_input_notes"
    /\ Len(call.args) = 1
    /\ Len(req.unauthenticated_input_notes) = 2
    /\ Cardinality(UnauthenticatedIds(req)) = 1
    /\ Cardinality(DOMAIN req.input_notes) = 1
    /\ req.input_notes[NoteIdOf(call.args[1][1])] = call.args[1][2]

\* C16: with_authenticated_input_notes changes input_notes only: each
\* supplied id is inserted with its args, the last supplied args winning for
\* a repeated or pre-existing id; the unauthenticated list, the template,
\* both expected-note maps, the advice map and the merkle store are unchanged.
C16_AuthenticatedFrame ==
    [][ call'.op = "with_authenticated_input_notes" =>
          LET ids == Firsts(call'.args)
          IN  /\ call'.status = "Ok"
              /\ DOMAIN req'.input_notes = DOMAIN req.input_notes \cup Range(ids)
              /\ \A id \in Range(ids) :
                    req'.input_notes[id] = call'.args[LastIndex(ids, id)][2]
              /\ \A id \in DOMAIN req.input_notes \ Range(ids) :
                    req'.input_notes[id] = req.input_notes[id]
              /\ req'.unauthenticated_input_notes = req.unauthenticated_input_notes
              /\ req'.script_template = req.script_template
              /\ req'.expected_output_notes = req.expected_output_notes
              /\ req'.expected_future_notes = req.expected_future_notes
              /\ req'.advice_map = req.advice_map
              /\ req'.merkle_store = req.merkle_store
      ]_vars

\* C16 witness: with_authenticated_input_notes was given one id twice, the
\* id of an unauthenticated note already held, and the last args are stored.
C16_Witness ==
    /\ call.op = "with_authenticated_input_notes"
    /\ Len(call.args) = 2
    /\ call.args[1][1] = call.args[2][1]
    /\ call.args[1][2] # call.args[2][2]
    /\ call.args[1][1] \in UnauthenticatedIds(req)
    /\ req.input_notes[call.args[2][1]] = call.args[2][2]

\* the discriminant and the payload the layout gives a template
TemplateTag(t) == IF t = None THEN 0 ELSE IF IsCustom(t) THEN 1 ELSE 2

TemplatePayload(t) ==
    IF t = None THEN <<>>
    ELSE IF IsCustom(t) THEN write_script(t[1].script)
    ELSE write_vec("partial", t[1].notes)

\* the four sections read from position pos on, in the order
\* expected_output_notes, expected_future_notes, advice map, merkle store
ReadRest(s, pos) ==
    Then(read_map("id", "note", s, pos), LAMBDA o :
    Then(read_map("id", "details", s, o.pos), LAMBDA f :
    Then(read_map("digest", "felts", s, f.pos), LAMBDA a :
    Then(read_merkle_store(s, a.pos), LAMBDA m :
         Got(<<o.val, f.val, a.val, m.val>>, m.pos)))))

WrittenLayout ==
    LET d == DiscriminantPos(buffer)
        t == req.script_template
        rest == d + 1 + Len(TemplatePayload(t))
    IN  /\ d # 0
        /\ SubSeq(buffer, 1, d - 1) =
               write_vec("note", req.unauthenticated_input_notes)
               \o write_map("args", req.input_notes)
        /\ buffer[d] = TemplateTag(t)
        /\ SubSeq(buffer, d + 1, rest - 1) = TemplatePayload(t)
        /\ ReadRest(buffer, rest) =
               Got(<<req.expected_output_notes, req.expected_future_notes,
                     req.advice_map, req.merkle_store>>,
                   Len(buffer) + 1)

ReadLayout ==
    LET d == DiscriminantPos(call.args)
    IN  /\ d # 0
        /\ call.args[d] \in {0, 1, 2}
        /\ call.args[d] = TemplateTag(Decoded.script_template)

\* C17: after the unauthenticated-note list and the input_notes list the
\* encoder writes exactly one discriminant byte: 0 for Unset with no
\* payload, 1 for CustomScript followed by the script, 2 for SendNotes
\* followed by the length-prefixed partial notes; the remaining fields
\* follow in the order expected_output_notes, expected_future_notes, advice
\* map, merkle store; the decoder maps 0, 1, 2 back to the same variants.
C17_DiscriminantLayout ==
    /\ pc \in {"encoded", "decoded"} => WrittenLayout
    /\ (pc = "decoded" /\ decoded.status = "Ok") => ReadLayout

\* C17 witness: a request with input notes, a SendNotes template of one
\* note and an expected output note was written and read back.
C17_Witness ==
    /\ pc = "decoded"
    /\ call.args = buffer
    /\ decoded.status = "Ok"
    /\ req.input_notes # EmptyMap
    /\ IsSendNotes(req.script_template)
    /\ Len(req.script_template[1].notes) = 1
    /\ req.expected_output_notes # EmptyMap

\* C17 second witness: a stream whose written discriminant 2 was replaced
\* by 0 was read as a request without template.
C17_WitnessRetagged ==
    /\ pc = "decoded"
    /\ decoded.status = "Ok"
    /\ IsSendNotes(req.script_template)
    /\ call.args[DiscriminantPos(call.args)] = 0
    /\ DiscriminantPos(call.args) = DiscriminantPos(buffer)
    /\ Decoded.script_template = None

\* the keys of n (key, value) pairs of a stream, in the order they stand in it
RECURSIVE read_keys(_, _, _, _, _)
read_keys(vkind, s, pos, n, acc) ==
    IF n = 0 THEN Got(acc, pos)
    ELSE Then(read_item("id", s, pos), LAMBDA k :
         Then(read_value(vkind, s, k.pos), LAMBDA v :
         read_keys(vkind, s, v.pos, n - 1, Append(acc, k.val))))

StreamKeys(vkind, s, pos) ==
    Then(read_u8(s, pos), LAMBDA n : read_keys(vkind, s, n.pos, n.val, <<>>))

\* the keys of the three keyed sections of a stream, in stream order
SectionKeys(s, t) ==
    Then(read_vec("note", s, 1), LAMBDA u :
    Then(StreamKeys("args", s, u.pos), LAMBDA i :
    Then(StreamKeys("note", s, i.pos + 1 + Len(TemplatePayload(t))), LAMBDA o :
    Then(StreamKeys("details", s, o.pos), LAMBDA f :
         Got(<<i.val, o.val, f.val>>, f.pos)))))

Ascending(keys) == \A i, j \in DOMAIN keys : i < j => keys[i] < keys[j]

\* the written sections: keys strictly ascending and those of the maps, the
\* note list as the request holds it
CanonicalSections ==
    LET keys == SectionKeys(buffer, req.script_template)
    IN  /\ keys.ok
        /\ \A i \in 1..3 : Ascending(keys.val[i])
        /\ Range(keys.val[1]) = DOMAIN req.input_notes
        /\ Range(keys.val[2]) = DOMAIN req.expected_output_notes
        /\ Range(keys.val[3]) = DOMAIN req.expected_future_notes
        /\ read_vec("note", buffer, 1).val = req.unauthenticated_input_notes

Reverse(list) == [i \in DOMAIN list |-> list[Len(list) + 1 - i]]

InsertingOps ==
    {"with_unauthenticated_input_notes", "with_authenticated_input_notes",
     "with_expected_output_notes", "with_expected_future_notes"}

\* the key under which an argument of an inserting operation is entered
KeysOf(op, args) ==
    [i \in DOMAIN args |->
        CASE op = "with_unauthenticated_input_notes" -> NoteIdOf(args[i][1])
          [] op = "with_authenticated_input_notes" -> args[i][1]
          [] op = "with_expected_output_notes" -> NoteIdOf(args[i])
          [] op = "with_expected_future_notes" -> DetailsId(args[i])]

\* the request the operation returns for another argument list
Applied(op, r, args) ==
    CASE op = "with_unauthenticated_input_notes" -> unauthenticated_loop(r, args)
      [] op = "with_authenticated_input_notes" -> authenticated_loop(r, args)
      [] op = "with_expected_output_notes" -> with_expected_output_notes_fn(r, args)
      [] op = "with_expected_future_notes" -> with_expected_future_notes_fn(r, args)

\* the same entries inserted in the opposite order give the same three
\* keyed sections; the note list is written as inserted
SameSectionsReversed ==
    LET op == call'.op
        other == Applied(op, req, Reverse(call'.args))
    IN  /\ write_map("args", other.input_notes) = write_map("args", req'.input_notes)
        /\ write_map("note", other.expected_output_notes) =
               write_map("note", req'.expected_output_notes)
        /\ write_map("details", other.expected_future_notes) =
               write_map("details", req'.expected_future_notes)
        /\ write_vec("note", other.unauthenticated_input_notes) =
               <<Len(req'.unauthenticated_input_notes)>> \o
               req.unauthenticated_input_notes \o
               (IF op = "with_unauthenticated_input_notes"
                THEN Reverse(Firsts(call'.args)) ELSE <<>>)

\* C18: the encoding does not depend on the order in which map entries were
\* inserted: input_notes, expected_output_notes and expected_future_notes
\* are written as association lists by ascending note id, the same for two
\* requests of the same contents built by inserting in different orders,
\* while the unauthenticated-note list is written in insertion order.
C18_CanonicalEncoding ==
    /\ [](pc \in {"encoded", "decoded"} => CanonicalSections)
    /\ [][ (/\ call'.op \in InsertingOps
            /\ Len(call'.args) = Cardinality(Range(KeysOf(call'.op, call'.args))))
           => SameSectionsReversed
         ]_vars

\* C18 witness: two unauthenticated notes were inserted by descending id and
\* the request was written: the list section is in insertion order, the
\* input_notes section by ascending id.
C18_Witness ==
    /\ pc = "encoded"
    /\ Len(req.unauthenticated_input_notes) = 2
    /\ NoteIdOf(req.unauthenticated_input_notes[1]) > NoteIdOf(req.unauthenticated_input_notes[2])
    /\ read_vec("note", buffer, 1).val = req.unauthenticated_input_notes
    /\ SectionKeys(buffer, req.script_template).val[1] = <<1, 2>>

\* C18 second witness: authenticated ids were inserted by descending id.
C18_WitnessReversed ==
    /\ call.op = "with_authenticated_input_notes"
    /\ Len(call.args) = 2
    /\ call.args[1][1] > call.args[2][1]
    /\ call.args[1][2] # call.args[2][2]

AuthenticatedIds(r) == Range(authenticated_input_note_ids(r))

\* C19: classification of an input note id is one-way: in every reachable
\* state the unauthenticated ids and authenticated_input_note_ids() are
\* disjoint and their union is the key set of input_notes; an id supplied to
\* with_unauthenticated_input_notes is not reported as authenticated
\* afterwards, whatever it was before; and an id once reported as
\* unauthenticated is never reported as authenticated again by any later
\* operation, with_authenticated_input_notes for that id included.
C19_OneWayClassification ==
    /\ [] /\ UnauthenticatedIds(req) \cap AuthenticatedIds(req) = {}
          /\ UnauthenticatedIds(req) \cup AuthenticatedIds(req) = DOMAIN req.input_notes
    /\ [][ /\ call'.op = "with_unauthenticated_input_notes" =>
                 \A id \in Range(NoteIdsOf(Firsts(call'.args))) :
                     /\ id \in UnauthenticatedIds(req')
                     /\ id \notin AuthenticatedIds(req')
           /\ \A id \in UnauthenticatedIds(req) :
                 /\ id \in UnauthenticatedIds(req')
                 /\ id \notin AuthenticatedIds(req')
         ]_vars

\* C19 witness: the id of the one unauthenticated note held was supplied to
\* with_authenticated_input_notes as the third call, and no id is reported
\* as authenticated.
C19_Witness ==
    /\ calls = 3
    /\ call.op = "with_authenticated_input_notes"
    /\ Len(call.args) = 1
    /\ UnauthenticatedIds(req) = {call.args[1][1]}
    /\ req.input_notes[call.args[1][1]] = call.args[1][2]
    /\ AuthenticatedIds(req) = {}

Constructors == {"consume_notes", "mint_fungible_asset", "pay_to_id", "swap"}

IsPrefix(a, b) == Len(a) <= Len(b) /\ SubSeq(b, 1, Len(a)) = a

\* C20: along any sequence of builder operations the key set of input_notes
\* never loses a key and the unauthenticated list is append-only; only
\* with_unauthenticated_input_notes changes the list, and only it and
\* with_authenticated_input_notes change input_notes.
C20_InputBookkeepingGrows ==
    [][ call'.op \notin Constructors =>
          /\ DOMAIN req.input_notes \subseteq DOMAIN req'.input_notes
          /\ IsPrefix(req.unauthenticated_input_notes, req'.unauthenticated_input_notes)
          /\ req'.unauthenticated_input_notes # req.unauthenticated_input_notes
                => call'.op = "with_unauthenticated_input_notes"
          /\ req'.input_notes # req.input_notes
                => call'.op \in {"with_unauthenticated_input_notes",
                                 "with_authenticated_input_notes"}
      ]_vars

\* C20 witness: a third call appended a note to an unauthenticated list of
\* two notes and added a key to input_notes.
C20_Witness ==
    /\ calls = 3
    /\ call.op = "with_unauthenticated_input_notes"
    /\ Len(call.args) = 1
    /\ Len(req.unauthenticated_input_notes) = 3
    /\ Cardinality(DOMAIN req.input_notes) = 2
    /\ NoteIdOf(req.unauthenticated_input_notes[3])
           \notin {NoteIdOf(req.unauthenticated_input_notes[1]),
                   NoteIdOf(req.unauthenticated_input_notes[2])}

\* with_expected_output_notes(X) and then with_own_output_notes(Y), on r
ExpectedThenOwn(r, X, Y) ==
    with_own_output_notes_fn(with_expected_output_notes_fn(r, X), Y)

\* with_own_output_notes(Y) and then with_expected_output_notes(X), on r
OwnThenExpected(r, X, Y) ==
    with_expected_output_notes_fn(with_own_output_notes_fn(r, Y).self, X)

\* what both orders leave, for the lists X and Y, on the request of a step
\* in which with_own_output_notes(Y) succeeds
TwoOrders(X, Y) ==
    LET xy == ExpectedThenOwn(req, X, Y)
        yx == OwnThenExpected(req, X, Y)
    IN  /\ xy.status = "Ok"
        /\ DOMAIN xy.self.expected_output_notes = Range(NoteIdsOf(X)) \cup FullIds(Y)
        /\ DOMAIN yx.expected_output_notes = Range(NoteIdsOf(X))
        /\ yx.script_template = req'.script_template
        /\ xy.self.script_template = req'.script_template

\* C21 as stated: with_own_output_notes adds its full notes without
\* clearing the map and with_expected_output_notes replaces it, so the two
\* do not commute: expected(X) then own(Y) leaves the keys ids(X) and ids of
\* the full notes of Y, own(Y) then expected(X) leaves only ids(X), and
\* the own full notes the template names are no longer registered.
C21_OwnNotesNeverRegistered ==
    [][ (call'.op = "with_own_output_notes" /\ call'.status = "Ok") =>
          \A X \in ListsOf(Notes) :
              /\ TwoOrders(X, call'.args)
              /\ \A id \in FullIds(call'.args) :
                    id \notin DOMAIN OwnThenExpected(req, X, call'.args).expected_output_notes
      ]_vars

\* C21 amended: as above, but after own(Y) then expected(X) an own full note
\* is registered exactly when its id is among ids(X); so the two orders
\* give different requests whenever some full note of Y has an id that is
\* not among ids(X), and that note, named by the template, is not registered.
C21_OwnNotesLostUnlessSupplied ==
    [][ (call'.op = "with_own_output_notes" /\ call'.status = "Ok") =>
          /\ OwnNotesKeys
          /\ \A X \in ListsOf(Notes) :
                LET yx == OwnThenExpected(req, X, call'.args)
                IN  /\ TwoOrders(X, call'.args)
                    /\ \A id \in FullIds(call'.args) :
                          id \in DOMAIN yx.expected_output_notes
                              <=> id \in Range(NoteIdsOf(X))
                    /\ ~(FullIds(call'.args) \subseteq Range(NoteIdsOf(X)))
                          => ExpectedThenOwn(req, X, call'.args).self # yx
      ]_vars

\* C21 witness: with_own_output_notes has added a full note to a map that
\* with_expected_output_notes had filled with a note of another id.
C21_Witness ==
    /\ calls = 2
    /\ call.op = "with_own_output_notes"
    /\ call.status = "Ok"
    /\ FullIds(call.args) = {2}
    /\ DOMAIN req.expected_output_notes = {1, 2}

\* C21 second witness: with_expected_output_notes has replaced the map
\* after with_own_output_notes, and the own full note is registered no more.
C21_WitnessLost ==
    /\ calls = 2
    /\ call.op = "with_expected_output_notes"
    /\ call.args # <<>>
    /\ IsSendNotes(req.script_template)
    /\ Len(req.script_template[1].notes) = 1
    /\ NoteIdOf(req.script_template[1].notes[1].partial) \notin DOMAIN req.expected_output_notes

\* the scripts a request may hold: those handed to with_custom_script and
\* those read_from rebuilds
HeldScripts == Scripts \cup {[hash |-> sc.hash, ast |-> 1] : sc \in Scripts}

\* the requests of a state, and the client's request with each other custom
\* script in place of its own
Compared ==
    Requests \cup
    (IF IsCustom(req.script_template)
     THEN {[req EXCEPT !.script_template = Some(CustomScript(sc))] : sc \in HeldScripts}
     ELSE {})

\* C22: the request equality is an equivalence relation over reachable
\* requests: reflexive, symmetric (although only the left operand's advice
\* map is iterated and the match is on the left operand's template) and
\* transitive.
C22_EqualityIsEquivalence ==
    /\ \A a \in Compared : eq(a, a)
    /\ \A a \in Compared : \A b \in Compared : eq(a, b) <=> eq(b, a)
    /\ \A a \in Compared : \A b \in Compared : \A c \in Compared :
          (eq(a, b) /\ eq(b, c)) => eq(a, c)

\* C22 witness: the decoded request holds a proper part of the advice
\* entries of the written one and is equal to it in every other field; the
\* two are unequal in both directions.
C22_Witness ==
    /\ decoded.status = "Ok"
    /\ Cardinality(DOMAIN Decoded.advice_map) = 1
    /\ Cardinality(DOMAIN req.advice_map) = 2
    /\ [Decoded EXCEPT !.advice_map = req.advice_map] = req
    /\ ~eq(req, Decoded)
    /\ ~eq(Decoded, req)

\* C22 second witness: three different requests are compared, two of them
\* equal with custom scripts of one hash and different structure.
C22_WitnessThree ==
    /\ decoded.status = "Ok"
    /\ IsCustom(req.script_template)
    /\ Decoded # req
    /\ eq(req, Decoded)
    /\ \E c \in Compared : ~eq(c, req) /\ ~eq(Decoded, c)

\* the template section that starts with the discriminant at position d
TemplateSection(s, d) ==
    CASE s[d] = 0 -> Got(None, d + 1)
      [] s[d] = 1 -> read_script(s, d + 1)
      [] s[d] = 2 -> read_vec("partial", s, d + 1)
      [] OTHER -> Bad

\* every section of the stream is well formed by itself
WellFormed(s) ==
    /\ DiscriminantPos(s) # 0
    /\ Then(TemplateSection(s, DiscriminantPos(s)), LAMBDA t : ReadRest(s, t.pos)).ok

\* the notes of the first section and the keys of the second, as they stand
\* in the stream
StreamNotes(s) == read_vec("note", s, 1).val

StreamInputKeys(s) == StreamKeys("args", s, read_vec("note", s, 1).pos).val

\* C23: decoding performs no cross-field validation: a stream whose
\* sections are each well formed decodes successfully, also when its
\* unauthenticated-note list holds a note whose id is not a key of the
\* decoded input_notes; the decoded request holds the list and the keys as
\* the stream has them, so it satisfies the unauthenticated-ids-are-input-
\* keys invariant only if the encoded data did.
C23_NoCrossFieldValidation ==
    pc = "decoded" =>
        /\ decoded.status = "Ok" <=> WellFormed(call.args)
        /\ decoded.status = "Ok" =>
              /\ Decoded.unauthenticated_input_notes = StreamNotes(call.args)
              /\ DOMAIN Decoded.input_notes = Range(StreamInputKeys(call.args))
              /\ UnauthenticatedIds(Decoded) \subseteq DOMAIN Decoded.input_notes
                    <=> Range(NoteIdsOf(StreamNotes(call.args)))
                            \subseteq Range(StreamInputKeys(call.args))

\* C23 witness: a stream written for a request that satisfies the invariant
\* and changed in one byte was decoded into a request that holds an
\* unauthenticated note whose id is not a key of its input_notes.
C23_Witness ==
    /\ pc = "decoded"
    /\ decoded.status = "Ok"
    /\ UnauthenticatedIds(req) \subseteq DOMAIN req.input_notes
    /\ \E i \in DOMAIN Decoded.unauthenticated_input_notes :
          NoteIdOf(Decoded.unauthenticated_input_notes[i]) \notin DOMAIN Decoded.input_notes

====
